---- MODULE Spec2Model ----
(***************************************************************************)
(* State-machine model of the SPS30 I2C driver class SPS30_I2C             *)
(* (src/u_sps30.py).                                                       *)
(*                                                                         *)
(* Class attributes of SPS30_I2C (the command lists and the three result   *)
(* dictionaries) are single objects shared by every instance, so they are  *)
(* single variables here.  Instance attributes (datatype_init, datatype,   *)
(* nbytes_measured_values) are functions of the session.  The I2C bus is   *)
(* the environment: every writeto/readfrom call either succeeds or raises, *)
(* and a successful readfrom(n) returns n bytes.  The variables op,        *)
(* caller, writes, reads, raw_data, parser and ret record what the last    *)
(* driver call did on the bus and what it handed back to its caller.       *)
(***************************************************************************)
EXTENDS Integers, Sequences, FiniteSets, TLC

VARIABLES
    created,                 \* session -> has __init__ run for it
    datatype_init,           \* self.datatype_init
    datatype,                \* self.datatype (format byte)
    nbytes_measured_values,  \* self.nbytes_measured_values
    CMD_START_MEASUREMENT,   \* class attribute, a mutable list
    dict_values,             \* class attribute, channel -> value
    dict_register,           \* class attribute, the three status flags
    dict_firmware_version,   \* class attribute, <<major, minor>>
    op,                      \* name of the last driver call
    caller,                  \* session the last call was made on (0: none yet)
    writes,                  \* i2c.writeto calls of the last call, in order
    reads,                   \* i2c.readfrom calls of the last call, in order
    raw_data,                \* bytes the last successful readfrom returned
    parser,                  \* measurement decoder the last call applied
    ret,                     \* what the last call handed to its caller
    ncalls,                  \* driver calls made so far
    vdata,                   \* frame handed to a direct _verify_crc call
    vkind,                   \* how vdata was produced
    vres                     \* result of the direct _verify_crc call

vars == <<created, datatype_init, datatype, nbytes_measured_values,
          CMD_START_MEASUREMENT, dict_values, dict_register,
          dict_firmware_version, op, caller, writes, reads, raw_data,
          parser, ret, ncalls, vdata, vkind, vres>>

sessionVars == <<created, datatype_init, datatype, nbytes_measured_values>>
verifyVars == <<vdata, vkind, vres>>

----------------------------------------------------------------------------
(* Bounds of the model *)

\* number of driver instances
NumSessions == 2
\* driver calls (constructor included) in one run
MaxCalls == 3
\* groups in a frame handed directly to _verify_crc
MaxGroups == 2

Sessions == 1..NumSessions

----------------------------------------------------------------------------
(* Bytes and bit operations of Python integers *)

Byte == 0..255

RECURSIVE XorBits(_, _)
XorBits(a, b) ==
    IF a = 0 THEN b
    ELSE IF b = 0 THEN a
    ELSE (((a % 2) + (b % 2)) % 2) + 2 * XorBits(a \div 2, b \div 2)

\* a ^ b, tabulated once for two bytes
XorTable == [a \in Byte |-> [b \in Byte |-> XorBits(a, b)]]
BitXor(a, b) ==
    IF a \in Byte /\ b \in Byte THEN XorTable[a][b] ELSE XorBits(a, b)

RECURSIVE BitAnd(_, _)
BitAnd(a, b) ==
    IF a = 0 \/ b = 0 THEN 0
    ELSE ((a % 2) * (b % 2)) + 2 * BitAnd(a \div 2, b \div 2)

RECURSIVE Pow2(_)
Pow2(n) == IF n = 0 THEN 1 ELSE 2 * Pow2(n - 1)

ShiftRight(a, n) == a \div Pow2(n)

\* Python slice data[i:j] of a sequence, 0-based, clipped to the length
Slice(data, i, j) ==
    LET hi == IF j < Len(data) THEN j ELSE Len(data)
    IN  IF i >= hi THEN <<>> ELSE SubSeq(data, i + 1, hi)

----------------------------------------------------------------------------
(* Class constants *)

_SPS_ADDR == 105

CMD_START_MEASUREMENT_INIT == <<0, 16>>
CMD_STOP_MEASUREMENT == <<1, 4>>
CMD_READ_DATA_READY_FLAG == <<2, 2>>
CMD_READ_MEASURED_VALUES == <<3, 0, 52>>
CMD_SLEEP == <<16, 1>>
CMD_WAKEUP == <<17, 3>>
CMD_START_FAN_CLEANING == <<86, 7>>
CMD_AUTO_CLEANING_INTERVAL == <<128, 4>>
CMD_PRODUCT_TYPE == <<208, 2>>
CMD_SERIAL_NUMBER == <<208, 51>>
CMD_FIRMWARE_VERSION == <<209, 0>>
CMD_READ_STATUS_REGISTER == <<210, 6>>
CMD_CLEAR_STATUS_REGISTER == <<210, 16>>

DATA_FORMAT_IEEE754_float == 3
DATA_FORMAT_unsigned_16_bit_integer == 5

NBYTES_READ_DATA_READY_FLAG == 3
NBYTES_MEASURED_VALUES_FLOAT == 60
NBYTES_MEASURED_VALUES_INTEGER == 30
NBYTES_AUTO_CLEANING_INTERVAL == 6
NBYTES_PRODUCT_TYPE == 12
NBYTES_SERIAL_NUMBER == 48
NBYTES_FIRMWARE_VERSION == 3
NBYTES_READ_STATUS_REGISTER == 6

\* _values_keys: the ten channels, by position
NumChannels == 10
Channels == 1..NumChannels

----------------------------------------------------------------------------
(* Python values held in the dictionaries *)

NoneVal == <<"None", 0, 0, 0>>
IntVal(n) == <<"int", n, 0, 0>>
\* a float is kept as the sign, biased exponent and fraction it was unpacked from
FloatVal(s, e, m) == <<"float", s, e, m>>

dict_values_init == [c \in Channels |-> NoneVal]
dict_register_init ==
    [fan_speed_error |-> FALSE, laser_error |-> FALSE, fan_error |-> FALSE]
dict_firmware_version_init == [major |-> NoneVal, minor |-> NoneVal]

----------------------------------------------------------------------------
(* CRC8 functions *)

\* one pass of the inner loop body of _crc8
Crc8Step(crc) ==
    IF BitAnd(crc, 128) # 0
    THEN BitAnd(BitXor(crc * 2, 49), 255)
    ELSE BitAnd(crc * 2, 255)

RECURSIVE Crc8Shift(_, _)
Crc8Shift(crc, n) == IF n = 0 THEN crc ELSE Crc8Shift(Crc8Step(crc), n - 1)

\* the eight passes of the inner loop, tabulated once per register value
Crc8Table == [crc \in Byte |-> Crc8Shift(crc, 8)]

RECURSIVE Crc8From(_, _)
Crc8From(crc, data) ==
    IF data = <<>> THEN crc
    ELSE Crc8From(Crc8Table[BitXor(crc, Head(data))], Tail(data))

_crc8(data) == Crc8From(255, data)

\* variant of the loop below that returns after its first group
VerifyGroupsFirstOnly(data, i) ==
    IF i >= Len(data) THEN TRUE
    ELSE _crc8(Slice(data, i, i + 2)) = data[i + 3]

\* the loop of _verify_crc from byte offset i on; stops at the first mismatch
RECURSIVE VerifyGroups(_, _)
VerifyGroups(data, i) ==
    IF i >= Len(data) THEN TRUE
    ELSE IF _crc8(Slice(data, i, i + 2)) # data[i + 3] THEN FALSE
    ELSE VerifyGroups(data, i + 3)

_verify_crc(data) ==
    IF Len(data) % 3 # 0 THEN FALSE ELSE VerifyGroups(data, 0)

----------------------------------------------------------------------------
(* Measurement decoders *)

\* struct.unpack(">H", data_pair)[0]
UnpackUint16(pair) == IntVal(pair[1] * 256 + pair[2])

\* struct.unpack('>f', chunk)[0]: sign bit, 8 exponent bits, 23 fraction bits
UnpackFloat(chunk) ==
    FloatVal(ShiftRight(chunk[1], 7),
             BitAnd(chunk[1], 127) * 2 + ShiftRight(chunk[2], 7),
             BitAnd(chunk[2], 127) * 65536 + chunk[3] * 256 + chunk[4])

\* A decoder yields the list it built, or raises (exc) on a short frame.
Parsed(vals) == [exc |-> FALSE, vals |-> vals]
ParseRaised == [exc |-> TRUE, vals |-> <<>>]

\* the loop of _parse_uint_data from byte offset i on
RECURSIVE ParseUintFrom(_, _, _)
ParseUintFrom(raw, i, data_values) ==
    IF i >= Len(raw) THEN Parsed(data_values)
    ELSE IF i + 2 >= Len(raw) THEN ParseRaised
    ELSE LET data_pair == Slice(raw, i, i + 2)
             checksum == raw[i + 3]
         IN  IF _crc8(data_pair) # checksum
             THEN ParseUintFrom(raw, i + 3, data_values)
             ELSE ParseUintFrom(raw, i + 3,
                                Append(data_values, UnpackUint16(data_pair)))

_parse_uint_data(raw) == ParseUintFrom(raw, 0, <<>>)

\* the loop of _parse_fp32_data from byte offset i on
RECURSIVE ParseFp32From(_, _, _)
ParseFp32From(raw, i, data_values) ==
    IF i >= Len(raw) THEN Parsed(data_values)
    ELSE LET chunk == Slice(raw, i, i + 2) \o Slice(raw, i + 3, i + 5)
         IN  IF Len(chunk) # 4 THEN ParseRaised
             ELSE ParseFp32From(raw, i + 6,
                                Append(data_values, UnpackFloat(chunk)))

\* self._verify_crc(raw_data) is called first and its result is dropped, so
\* the list depends on the data bytes alone
_parse_fp32_data(raw) == ParseFp32From(raw, 0, <<>>)

\* for key, val in zip(self._values_keys, data_values): dict_values[key] = val
ZipUpdate(dv, data_values) ==
    [c \in Channels |-> IF c <= Len(data_values) THEN data_values[c] ELSE dv[c]]

----------------------------------------------------------------------------
(* Status, firmware and text decoders *)

\* register_bit[k] of read_status_register: bits of the bytes, MSB first
RegisterBit(register_data, k) ==
    BitAnd(ShiftRight(register_data[(k \div 8) + 1], 7 - (k % 8)), 1) = 1

DecodeRegister(register_raw) ==
    LET register_data == Slice(register_raw, 0, 2) \o Slice(register_raw, 3, 5)
    IN  [fan_speed_error |-> RegisterBit(register_data, 21),
         laser_error |-> RegisterBit(register_data, 5),
         fan_error |-> RegisterBit(register_data, 4)]

\* chars.extend(raw_data[i:i+2]) for i in range(0, len(raw_data), 3)
RECURSIVE StripChecksums(_, _)
StripChecksums(raw, i) ==
    IF i >= Len(raw) THEN <<>>
    ELSE Slice(raw, i, i + 2) \o StripChecksums(raw, i + 3)

\* bytes(chars).decode('ascii') raises on a byte above 0x7F
IsAscii(chars) == \A k \in 1..Len(chars) : chars[k] < 128

\* characters str.strip() removes
IsSpace(c) == c \in {9, 10, 11, 12, 13, 28, 29, 30, 31, 32}

RECURSIVE LStrip(_)
LStrip(chars) ==
    IF chars # <<>> /\ IsSpace(Head(chars)) THEN LStrip(Tail(chars)) ELSE chars

RECURSIVE RStrip(_)
RStrip(chars) ==
    IF chars # <<>> /\ IsSpace(chars[Len(chars)])
    THEN RStrip(SubSeq(chars, 1, Len(chars) - 1)) ELSE chars

Strip(chars) == RStrip(LStrip(chars))

\* string.rstrip('0'): the character '0' is 0x30
RECURSIVE RStripZero(_)
RStripZero(chars) ==
    IF chars # <<>> /\ chars[Len(chars)] = 48
    THEN RStripZero(SubSeq(chars, 1, Len(chars) - 1)) ELSE chars

\* interval[0] << 24 | interval[1] << 16 | interval[2] << 8 | interval[3]
DecodeInterval(raw) ==
    LET interval == StripChecksums(Slice(raw, 0, NBYTES_AUTO_CLEANING_INTERVAL), 0)
    IN  interval[1] * 16777216 + interval[2] * 65536
          + interval[3] * 256 + interval[4]

----------------------------------------------------------------------------
(* The bus: what readfrom may return *)

\* data words a device may answer with; a read of n bytes takes the first n/3.
\* Payload 1 counts 1..20.  Payload 2 sets the three status bits in its first
\* two words, is ASCII text in words 1..16 and has bytes above 0x7F after that.
PayloadIds == {1, 2}
PayloadWords(p) ==
    IF p = 1 THEN [i \in 1..20 |-> i]
    ELSE <<3120, 1072, 12336, 14368, 8241, 12851, 13365, 13879, 14393, 16706,
           17220, 17734, 12594, 12336, 8224, 8224, 49864, 32768, 32640, 0>>

\* groups whose checksum byte arrives damaged
BadSets == {{}, {1}}

RECURSIVE FrameFrom(_, _, _, _)
FrameFrom(words, bad, g, ngroups) ==
    IF g > ngroups THEN <<>>
    ELSE LET b0 == words[g] \div 256
             b1 == words[g] % 256
             c == _crc8(<<b0, b1>>)
         IN  <<b0, b1, IF g \in bad THEN BitXor(c, 255) ELSE c>>
               \o FrameFrom(words, bad, g + 1, ngroups)

\* the response lengths the driver asks for
ReadLengths ==
    {NBYTES_READ_DATA_READY_FLAG, NBYTES_MEASURED_VALUES_FLOAT,
     NBYTES_MEASURED_VALUES_INTEGER, NBYTES_AUTO_CLEANING_INTERVAL,
     NBYTES_PRODUCT_TYPE, NBYTES_SERIAL_NUMBER, NBYTES_FIRMWARE_VERSION,
     NBYTES_READ_STATUS_REGISTER}

ResponseTable ==
    [n \in ReadLengths |-> [p \in PayloadIds |-> [bad \in BadSets |->
        FrameFrom(PayloadWords(p), bad, 1, n \div 3)]]]

\* the n bytes a successful readfrom(addr, n) returns
Response(n, p, bad) == ResponseTable[n][p][bad]

\* how the bus treats one call of a reading method: the write fails, or the
\* read fails, or both succeed and the device answers payload p with the
\* checksums of the groups in bad damaged
BusOutcomes ==
    {[wok |-> FALSE, rok |-> FALSE, p |-> 1, bad |-> {}],
     [wok |-> TRUE, rok |-> FALSE, p |-> 1, bad |-> {}]}
    \cup {[wok |-> TRUE, rok |-> TRUE, p |-> p, bad |-> bad] :
             p \in PayloadIds, bad \in BadSets}

WriteCall(data, ok) == [addr |-> _SPS_ADDR, data |-> data, ok |-> ok]
ReadCall(n, ok) == [addr |-> _SPS_ADDR, nbytes |-> n, ok |-> ok]

----------------------------------------------------------------------------
(* What a call hands back *)

RetNone == [kind |-> "None", val |-> <<>>]
RetEmptyList == [kind |-> "list", val |-> <<>>]
RetDictValues == [kind |-> "dict_values", val |-> <<>>]
RetDictRegister == [kind |-> "dict_register", val |-> <<>>]
RetDictFirmware == [kind |-> "dict_firmware_version", val |-> <<>>]
RetStr(chars) == [kind |-> "str", val |-> chars]
RetInt(n) == [kind |-> "int", val |-> <<n>>]
RetBool(b) == [kind |-> "bool", val |-> <<IF b THEN 1 ELSE 0>>]
\* the exception leaves the method
RetRaise == [kind |-> "raise", val |-> <<>>]

----------------------------------------------------------------------------
(* Initial state: the class has been defined, no instance exists *)

Datatypes == {"FP32", "UI16", "INT8"}

Init ==
    /\ created = [s \in Sessions |-> FALSE]
    /\ datatype_init = [s \in Sessions |-> "unset"]
    /\ datatype = [s \in Sessions |-> 0]
    /\ nbytes_measured_values = [s \in Sessions |-> 0]
    /\ CMD_START_MEASUREMENT = CMD_START_MEASUREMENT_INIT
    /\ dict_values = dict_values_init
    /\ dict_register = dict_register_init
    /\ dict_firmware_version = dict_firmware_version_init
    /\ op = "none"
    /\ caller = 0
    /\ writes = <<>>
    /\ reads = <<>>
    /\ raw_data = <<>>
    /\ parser = "none"
    /\ ret = RetNone
    /\ ncalls = 0
    /\ vdata = <<>>
    /\ vkind = "none"
    /\ vres = "none"

----------------------------------------------------------------------------
(* Attribute lookup: self.X finds the class attribute when the instance has
   none of that name; no method ever assigns these on the instance *)

self_dict_values(s) == dict_values
self_dict_register(s) == dict_register
self_dict_firmware_version(s) == dict_firmware_version
self_CMD_START_MEASUREMENT(s) == CMD_START_MEASUREMENT

----------------------------------------------------------------------------
(* Operations *)

classVars == <<CMD_START_MEASUREMENT, dict_values, dict_register,
               dict_firmware_version>>

\* one more call is made
Call ==
    /\ ncalls < MaxCalls
    /\ ncalls' = ncalls + 1

__init__(s, dt) ==
    /\ ~created[s]
    /\ Call
    /\ created' = [created EXCEPT ![s] = TRUE]
    /\ datatype_init' = [datatype_init EXCEPT ![s] = dt]
    /\ datatype' = [datatype EXCEPT ![s] =
                      IF dt = "FP32" THEN DATA_FORMAT_IEEE754_float
                      ELSE DATA_FORMAT_unsigned_16_bit_integer]
    /\ nbytes_measured_values' = [nbytes_measured_values EXCEPT ![s] =
                      IF dt = "FP32" THEN NBYTES_MEASURED_VALUES_FLOAT
                      ELSE NBYTES_MEASURED_VALUES_INTEGER]
    /\ op' = "__init__"
    /\ caller' = s
    /\ writes' = <<>>
    /\ reads' = <<>>
    /\ raw_data' = <<>>
    /\ parser' = "none"
    /\ ret' = RetNone
    /\ UNCHANGED <<classVars, verifyVars>>

\* a method whose whole body is one writeto inside try/except that only prints
SendSwallowed(name, s, cmd, wok) ==
    /\ created[s]
    /\ Call
    /\ op' = name
    /\ caller' = s
    /\ writes' = <<WriteCall(cmd, wok)>>
    /\ reads' = <<>>
    /\ raw_data' = <<>>
    /\ parser' = "none"
    /\ ret' = RetNone
    /\ UNCHANGED <<sessionVars, classVars, verifyVars>>

clear_status_register(s, wok) ==
    SendSwallowed("clear_status_register", s, CMD_CLEAR_STATUS_REGISTER, wok)

sleep(s, wok) == SendSwallowed("sleep", s, CMD_SLEEP, wok)

start_fan_cleaning(s, wok) ==
    SendSwallowed("start_fan_cleaning", s, CMD_START_FAN_CLEANING, wok)

stop_measurement(s, wok) ==
    SendSwallowed("stop_measurement", s, CMD_STOP_MEASUREMENT, wok)

\* the writeto calls wakeup makes: the second is inside the same try block
WakeupWrites(wok1, wok2) ==
    IF wok1 THEN <<WriteCall(CMD_WAKEUP, wok1), WriteCall(CMD_WAKEUP, wok2)>>
    ELSE <<WriteCall(CMD_WAKEUP, wok1)>>

wakeup(s, wok1, wok2) ==
    /\ created[s]
    /\ Call
    /\ op' = "wakeup"
    /\ caller' = s
    /\ writes' = WakeupWrites(wok1, wok2)
    /\ reads' = <<>>
    /\ raw_data' = <<>>
    /\ parser' = "none"
    /\ ret' = RetNone
    /\ UNCHANGED <<sessionVars, classVars, verifyVars>>

\* data = self.CMD_START_MEASUREMENT binds the class list itself; extend and
\* append change it in place, and data[2:4] are its third and fourth bytes
StartFrame(s) ==
    LET data == self_CMD_START_MEASUREMENT(s) \o <<datatype[s], 0>>
    IN  Append(data, _crc8(Slice(data, 2, 4)))

start_measurement(s, wok) ==
    /\ created[s]
    /\ Call
    /\ CMD_START_MEASUREMENT' = StartFrame(s)
    /\ op' = "start_measurement"
    /\ caller' = s
    /\ writes' = <<WriteCall(StartFrame(s), wok)>>
    /\ reads' = <<>>
    /\ raw_data' = <<>>
    /\ parser' = "none"
    /\ ret' = RetNone
    /\ UNCHANGED <<sessionVars, dict_values, dict_register,
                   dict_firmware_version, verifyVars>>

\* what one call leaves in the bus log and hands back
Log(name, s, w, r, raw, prs, rt) ==
    /\ Call
    /\ op' = name
    /\ caller' = s
    /\ writes' = w
    /\ reads' = r
    /\ raw_data' = raw
    /\ parser' = prs
    /\ ret' = rt

\* read_status_register: writeto and readfrom are both inside the try block
read_status_register(s, io) ==
    LET wok == io.wok
        rok == io.rok
        n == NBYTES_READ_STATUS_REGISTER
        register_raw == Response(n, io.p, io.bad)
        w == <<WriteCall(CMD_READ_STATUS_REGISTER, wok)>>
    IN  /\ created[s]
        /\ IF ~wok THEN
              /\ Log("read_status_register", s, w, <<>>, <<>>, "none", RetNone)
              /\ UNCHANGED dict_register
           ELSE IF ~rok THEN
              /\ Log("read_status_register", s, w, <<ReadCall(n, FALSE)>>,
                     <<>>, "none", RetNone)
              /\ UNCHANGED dict_register
           ELSE IF ~_verify_crc(register_raw) THEN
              /\ Log("read_status_register", s, w, <<ReadCall(n, TRUE)>>,
                     register_raw, "none", RetNone)
              /\ UNCHANGED dict_register
           ELSE
              /\ Log("read_status_register", s, w, <<ReadCall(n, TRUE)>>,
                     register_raw, "none", RetDictRegister)
              /\ dict_register' = DecodeRegister(register_raw)
        /\ UNCHANGED <<sessionVars, CMD_START_MEASUREMENT, dict_values,
                       dict_firmware_version, verifyVars>>

\* read_firmware_version: writeto is outside the try block, readfrom inside
read_firmware_version(s, io) ==
    LET wok == io.wok
        rok == io.rok
        n == NBYTES_FIRMWARE_VERSION
        raw == Response(n, io.p, io.bad)
        w == <<WriteCall(CMD_FIRMWARE_VERSION, wok)>>
    IN  /\ created[s]
        /\ IF ~wok THEN
              /\ Log("read_firmware_version", s, w, <<>>, <<>>, "none", RetRaise)
              /\ UNCHANGED dict_firmware_version
           ELSE IF ~rok THEN
              /\ Log("read_firmware_version", s, w, <<ReadCall(n, FALSE)>>,
                     <<>>, "none", RetNone)
              /\ UNCHANGED dict_firmware_version
           ELSE IF ~_verify_crc(raw) THEN
              /\ Log("read_firmware_version", s, w, <<ReadCall(n, TRUE)>>,
                     raw, "none", RetNone)
              /\ UNCHANGED dict_firmware_version
           ELSE
              /\ Log("read_firmware_version", s, w, <<ReadCall(n, TRUE)>>,
                     raw, "none", RetDictFirmware)
              /\ dict_firmware_version' =
                     [major |-> IntVal(raw[1]), minor |-> IntVal(raw[2])]
        /\ UNCHANGED <<sessionVars, CMD_START_MEASUREMENT, dict_values,
                       dict_register, verifyVars>>

\* a call that changes no attribute: only the bus log and the result
ReadOnly(name, s, w, r, raw, rt) ==
    /\ created[s]
    /\ Log(name, s, w, r, raw, "none", rt)
    /\ UNCHANGED <<sessionVars, classVars, verifyVars>>

\* the text read_product_type / read_serial_number build from a verified frame
DecodeText(raw, serial) ==
    LET chars == StripChecksums(raw, 0)
    IN  IF ~IsAscii(chars) THEN RetNone
        ELSE IF serial THEN RetStr(RStripZero(Strip(chars)))
        ELSE RetStr(Strip(chars))

read_product_type(s, io) ==
    LET wok == io.wok
        rok == io.rok
        n == NBYTES_PRODUCT_TYPE
        raw == Response(n, io.p, io.bad)
        w == <<WriteCall(CMD_PRODUCT_TYPE, wok)>>
    IN  IF ~wok THEN ReadOnly("read_product_type", s, w, <<>>, <<>>, RetRaise)
        ELSE IF ~rok THEN
            ReadOnly("read_product_type", s, w, <<ReadCall(n, FALSE)>>, <<>>,
                     RetNone)
        ELSE ReadOnly("read_product_type", s, w, <<ReadCall(n, TRUE)>>, raw,
                      IF ~_verify_crc(raw) THEN RetNone
                      ELSE DecodeText(raw, FALSE))

read_serial_number(s, io) ==
    LET wok == io.wok
        rok == io.rok
        n == NBYTES_SERIAL_NUMBER
        raw == Response(n, io.p, io.bad)
        w == <<WriteCall(CMD_SERIAL_NUMBER, wok)>>
    IN  IF ~wok THEN ReadOnly("read_serial_number", s, w, <<>>, <<>>, RetRaise)
        ELSE IF ~rok THEN
            ReadOnly("read_serial_number", s, w, <<ReadCall(n, FALSE)>>, <<>>,
                     RetNone)
        ELSE ReadOnly("read_serial_number", s, w, <<ReadCall(n, TRUE)>>, raw,
                      IF ~_verify_crc(raw) THEN RetNone
                      ELSE DecodeText(raw, TRUE))

\* read_auto_cleaning_interval has no try block at all
read_auto_cleaning_interval(s, io) ==
    LET wok == io.wok
        rok == io.rok
        n == NBYTES_AUTO_CLEANING_INTERVAL
        raw == Response(n, io.p, io.bad)
        w == <<WriteCall(CMD_AUTO_CLEANING_INTERVAL, wok)>>
    IN  IF ~wok THEN
            ReadOnly("read_auto_cleaning_interval", s, w, <<>>, <<>>, RetRaise)
        ELSE IF ~rok THEN
            ReadOnly("read_auto_cleaning_interval", s, w,
                     <<ReadCall(n, FALSE)>>, <<>>, RetRaise)
        ELSE ReadOnly("read_auto_cleaning_interval", s, w,
                      <<ReadCall(n, TRUE)>>, raw,
                      IF ~_verify_crc(raw) THEN RetNone
                      ELSE RetInt(DecodeInterval(raw)))

\* read_data_ready_flag: writeto is outside the try block, readfrom inside
read_data_ready_flag(s, io) ==
    LET wok == io.wok
        rok == io.rok
        n == NBYTES_READ_DATA_READY_FLAG
        raw == Response(n, io.p, io.bad)
        w == <<WriteCall(CMD_READ_DATA_READY_FLAG, wok)>>
    IN  IF ~wok THEN
            ReadOnly("read_data_ready_flag", s, w, <<>>, <<>>, RetRaise)
        ELSE IF ~rok THEN
            ReadOnly("read_data_ready_flag", s, w, <<ReadCall(n, FALSE)>>,
                     <<>>, RetNone)
        ELSE ReadOnly("read_data_ready_flag", s, w, <<ReadCall(n, TRUE)>>, raw,
                      IF ~_verify_crc(raw) THEN RetNone
                      ELSE RetBool(raw[2] = 1))

\* the decoder read_data picks, by the constructor argument as given
ParserOf(s) == IF datatype_init[s] = "UI16" THEN "uint" ELSE "fp32"

\* variant of read_data below in which a failed writeto does not end the call
ReadDataOutcomeIgnoringWrite(s, wok, rok, raw) ==
    LET n == nbytes_measured_values[s]
        w == <<WriteCall(CMD_READ_MEASURED_VALUES, wok)>>
        parsed == IF ParserOf(s) = "uint" THEN _parse_uint_data(raw)
                  ELSE _parse_fp32_data(raw)
    IN  IF ~rok THEN
            [writes |-> w, reads |-> <<ReadCall(n, FALSE)>>, raw_data |-> <<>>,
             parser |-> "none", ret |-> RetEmptyList,
             dict_values |-> self_dict_values(s)]
        ELSE IF parsed.exc THEN
            [writes |-> w, reads |-> <<ReadCall(n, TRUE)>>, raw_data |-> raw,
             parser |-> ParserOf(s), ret |-> RetEmptyList,
             dict_values |-> self_dict_values(s)]
        ELSE
            [writes |-> w, reads |-> <<ReadCall(n, TRUE)>>, raw_data |-> raw,
             parser |-> ParserOf(s), ret |-> RetDictValues,
             dict_values |-> ZipUpdate(self_dict_values(s), parsed.vals)]

\* everything read_data does, as one record: the bus calls, the decoder
\* applied, the result, and the dictionary afterwards
ReadDataOutcome(s, wok, rok, raw) ==
    LET n == nbytes_measured_values[s]
        w == <<WriteCall(CMD_READ_MEASURED_VALUES, wok)>>
        parsed == IF ParserOf(s) = "uint" THEN _parse_uint_data(raw)
                  ELSE _parse_fp32_data(raw)
    IN  IF ~wok THEN
            [writes |-> w, reads |-> <<>>, raw_data |-> <<>>,
             parser |-> "none", ret |-> RetEmptyList,
             dict_values |-> self_dict_values(s)]
        ELSE IF ~rok THEN
            [writes |-> w, reads |-> <<ReadCall(n, FALSE)>>, raw_data |-> <<>>,
             parser |-> "none", ret |-> RetEmptyList,
             dict_values |-> self_dict_values(s)]
        ELSE IF parsed.exc THEN
            [writes |-> w, reads |-> <<ReadCall(n, TRUE)>>, raw_data |-> raw,
             parser |-> ParserOf(s), ret |-> RetEmptyList,
             dict_values |-> self_dict_values(s)]
        ELSE
            [writes |-> w, reads |-> <<ReadCall(n, TRUE)>>, raw_data |-> raw,
             parser |-> ParserOf(s), ret |-> RetDictValues,
             dict_values |-> ZipUpdate(self_dict_values(s), parsed.vals)]

read_data(s, io) ==
    /\ created[s]
    /\ \E out \in {ReadDataOutcome(s, io.wok, io.rok,
                       Response(nbytes_measured_values[s], io.p, io.bad))} :
          /\ Log("read_data", s, out.writes, out.reads, out.raw_data,
                 out.parser, out.ret)
          /\ dict_values' = out.dict_values
    /\ UNCHANGED <<sessionVars, CMD_START_MEASUREMENT, dict_register,
                   dict_firmware_version, verifyVars>>

----------------------------------------------------------------------------
(* The driver as a state machine: any call, on any instance, in any order *)

Next ==
    \/ \E s \in Sessions, dt \in Datatypes : __init__(s, dt)
    \/ \E s \in Sessions, wok \in BOOLEAN : clear_status_register(s, wok)
    \/ \E s \in Sessions, wok \in BOOLEAN : sleep(s, wok)
    \/ \E s \in Sessions, wok \in BOOLEAN : start_fan_cleaning(s, wok)
    \/ \E s \in Sessions, wok \in BOOLEAN : stop_measurement(s, wok)
    \/ \E s \in Sessions, wok1 \in BOOLEAN, wok2 \in BOOLEAN : wakeup(s, wok1, wok2)
    \/ \E s \in Sessions, wok \in BOOLEAN : start_measurement(s, wok)
    \/ \E s \in Sessions, io \in BusOutcomes :
          \/ read_status_register(s, io)
          \/ read_firmware_version(s, io)
          \/ read_product_type(s, io)
          \/ read_serial_number(s, io)
          \/ read_auto_cleaning_interval(s, io)
          \/ read_data_ready_flag(s, io)
          \/ read_data(s, io)

Spec == Init /\ [][Next]_vars

----------------------------------------------------------------------------
(* _verify_crc called directly on a frame *)

\* bytes the groups of a test frame are built from
SampleBytes == {3, 255}

\* the frames of exactly n groups (b0, b1, _crc8(b0, b1))
RECURSIVE BuiltFrames(_)
BuiltFrames(n) ==
    IF n = 0 THEN {<<>>}
    ELSE {f \o <<b0, b1, _crc8(<<b0, b1>>)>> :
             f \in BuiltFrames(n - 1), b0 \in SampleBytes, b1 \in SampleBytes}

InitVerify ==
    /\ created = [s \in Sessions |-> FALSE]
    /\ datatype_init = [s \in Sessions |-> "unset"]
    /\ datatype = [s \in Sessions |-> 0]
    /\ nbytes_measured_values = [s \in Sessions |-> 0]
    /\ CMD_START_MEASUREMENT = CMD_START_MEASUREMENT_INIT
    /\ dict_values = dict_values_init
    /\ dict_register = dict_register_init
    /\ dict_firmware_version = dict_firmware_version_init
    /\ op = "none"
    /\ caller = 0
    /\ writes = <<>>
    /\ reads = <<>>
    /\ raw_data = <<>>
    /\ parser = "none"
    /\ ret = RetNone
    /\ ncalls = 0
    /\ \E n \in 0..MaxGroups : vdata \in BuiltFrames(n)
    /\ vkind = "built"
    /\ vres = "pending"

mainVars == <<sessionVars, classVars, op, caller, writes, reads, raw_data,
              parser, ret, ncalls>>

\* one byte of a built frame is replaced by a different value
CorruptByte ==
    /\ vkind = "built"
    /\ vres = "pending"
    /\ \E i \in 1..Len(vdata), v \in Byte :
          /\ v # vdata[i]
          /\ vdata' = [vdata EXCEPT ![i] = v]
    /\ vkind' = "corrupted"
    /\ UNCHANGED <<vres, mainVars>>

\* one or two bytes are appended: the length is no longer a multiple of 3
AppendBytes ==
    /\ vkind = "built"
    /\ vres = "pending"
    /\ \E b0 \in SampleBytes, b1 \in Byte :
          vdata' \in {vdata \o <<b0>>, vdata \o <<b0, b1>>}
    /\ vkind' = "ragged"
    /\ UNCHANGED <<vres, mainVars>>

\* self._verify_crc(vdata)
verify_call ==
    /\ vres = "pending"
    /\ vres' = IF _verify_crc(vdata) THEN "True" ELSE "False"
    /\ UNCHANGED <<vdata, vkind, mainVars>>

NextVerify ==
    \/ CorruptByte
    \/ AppendBytes
    \/ verify_call

SpecVerify == InitVerify /\ [][NextVerify]_vars

----------------------------------------------------------------------------
(* Vocabulary of the properties *)

\* The checksum as the protocol defines it: CRC-8 of the 16 message bits,
\* most significant first, generator x^8 + x^5 + x^4 + 1 (0x31), register
\* preset to 0xFF, one message bit per shift.
BitsOf(b) == [k \in 1..8 |-> (b \div Pow2(8 - k)) % 2]

RECURSIVE CrcBitSerial(_, _)
CrcBitSerial(reg, bits) ==
    IF bits = <<>> THEN reg
    ELSE LET top == ((reg \div 128) + Head(bits)) % 2
             shifted == (reg * 2) % 256
         IN  CrcBitSerial(IF top = 1 THEN XorBits(shifted, 49) ELSE shifted,
                          Tail(bits))

Checksum(b0, b1) == CrcBitSerial(255, BitsOf(b0) \o BitsOf(b1))

\* group g (0-based) of a frame carries the checksum of its two data bytes
GroupValid(frame, g) ==
    frame[3 * g + 3] = Checksum(frame[3 * g + 1], frame[3 * g + 2])

WellFormed(frame) ==
    /\ Len(frame) % 3 = 0
    /\ \A g \in 0..((Len(frame) \div 3) - 1) : GroupValid(frame, g)

\* the step is a driver call
Called == ncalls' = ncalls + 1

\* some bus call of the last driver call raised
WriteFailed == \E i \in 1..Len(writes) : ~writes[i].ok
ReadFailed == \E i \in 1..Len(reads) : ~reads[i].ok
TransportFailed == WriteFailed \/ ReadFailed

WriteOnlyOps ==
    {"start_measurement", "stop_measurement", "sleep", "wakeup",
     "clear_status_register", "start_fan_cleaning"}

\* what each operation hands back when every bus call succeeded and the
\* response was intact
SuccessKind(o) ==
    CASE o \in WriteOnlyOps -> "None"
      [] o = "read_data" -> "dict_values"
      [] o = "read_status_register" -> "dict_register"
      [] o = "read_firmware_version" -> "dict_firmware_version"
      [] o = "read_product_type" -> "str"
      [] o = "read_serial_number" -> "str"
      [] o = "read_auto_cleaning_interval" -> "int"
      [] o = "read_data_ready_flag" -> "bool"
      [] OTHER -> "none"

\* the opcode table of the protocol
OpcodeTable(o) ==
    CASE o = "stop_measurement" -> <<1, 4>>
      [] o = "read_data_ready_flag" -> <<2, 2>>
      [] o = "read_data" -> <<3, 0>>
      [] o = "sleep" -> <<16, 1>>
      [] o = "wakeup" -> <<17, 3>>
      [] o = "start_fan_cleaning" -> <<86, 7>>
      [] o = "read_auto_cleaning_interval" -> <<128, 4>>
      [] o = "read_product_type" -> <<208, 2>>
      [] o = "read_serial_number" -> <<208, 51>>
      [] o = "read_firmware_version" -> <<209, 0>>
      [] o = "read_status_register" -> <<210, 6>>
      [] o = "clear_status_register" -> <<210, 16>>
      [] OTHER -> <<>>

----------------------------------------------------------------------------
(* Properties *)

\* C1: every start_measurement call writes exactly the five bytes
\* 0x00, 0x10, F, 0x00, checksum(F, 0x00), F being the calling session's
\* format byte, whatever calls came before on any session.
C1_StartFrameIsFiveBytes ==
    op = "start_measurement" =>
        /\ Len(writes) = 1
        /\ writes[1].data = <<0, 16, datatype[caller], 0,
                              Checksum(datatype[caller], 0)>>

\* C2: wakeup always issues exactly two writes of the wakeup command,
\* whether the first write succeeds or fails.
C2_WakeupWritesTwice ==
    op = "wakeup" =>
        /\ Len(writes) = 2
        /\ \A i \in 1..Len(writes) : writes[i].data = CMD_WAKEUP

\* C3: in UI16 mode, after read_data on a 30-byte response, channel i holds
\* the big-endian 16-bit value of group i when group i is valid and keeps
\* its previous value when group i is invalid, for every i in 0..9.
C3_UintGroupsStayInTheirChannels ==
    [][(/\ Called
        /\ op' = "read_data"
        /\ datatype_init[caller'] = "UI16"
        /\ Len(raw_data') = NBYTES_MEASURED_VALUES_INTEGER)
       => \A i \in 0..9 :
            IF GroupValid(raw_data', i)
            THEN dict_values'[i + 1] =
                   IntVal(raw_data'[3 * i + 1] * 256 + raw_data'[3 * i + 2])
            ELSE dict_values'[i + 1] = dict_values[i + 1]]_vars

\* C4: for every session, whatever datatype was given at construction, the
\* format byte of start_measurement, the number of bytes read_data asks for
\* (60 float, 30 integer) and the decoder read_data applies (float decoder
\* for float, uint decoder for integer) are of one numeric format.
C4_FormatChoicesAgree ==
    \A s \in Sessions : created[s] =>
        \/ /\ datatype[s] = DATA_FORMAT_IEEE754_float
           /\ nbytes_measured_values[s] = NBYTES_MEASURED_VALUES_FLOAT
           /\ ParserOf(s) = "fp32"
        \/ /\ datatype[s] = DATA_FORMAT_unsigned_16_bit_integer
           /\ nbytes_measured_values[s] = NBYTES_MEASURED_VALUES_INTEGER
           /\ ParserOf(s) = "uint"

\* C5: no state is shared across sessions: a read_data, read_status_register,
\* read_firmware_version or start_measurement call on one session leaves
\* every other session's measurement set, status flags, firmware version and
\* start frame unchanged, and a session's three dictionaries are fresh
\* (unset/false) when its constructor returns.
C5_NoStateSharedAcrossSessions ==
    [][Called =>
        /\ \A b \in Sessions :
             (/\ created[b]
              /\ b # caller'
              /\ op' \in {"read_data", "read_status_register",
                          "read_firmware_version", "start_measurement"})
             => /\ self_dict_values(b)' = self_dict_values(b)
                /\ self_dict_register(b)' = self_dict_register(b)
                /\ self_dict_firmware_version(b)' = self_dict_firmware_version(b)
                /\ StartFrame(b)' = StartFrame(b)
        /\ op' = "__init__" =>
             /\ self_dict_values(caller')' = dict_values_init
             /\ self_dict_register(caller')' = dict_register_init
             /\ self_dict_firmware_version(caller')' = dict_firmware_version_init
      ]_vars

\* C6: _verify_crc(frame) is true exactly when the length is a multiple of 3
\* and every group's third byte is the checksum of its first two; so it is
\* false for a length not divisible by 3, true for a frame built from N >= 0
\* well-formed groups, and false once any single byte of such a frame has
\* been changed to a different value.
C6_VerifyIffWellFormed ==
    vres # "pending" =>
        /\ (vres = "True") <=> WellFormed(vdata)
        /\ Len(vdata) % 3 # 0 => vres = "False"
        /\ vkind = "ragged" => vres = "False"
        /\ vkind = "built" => vres = "True"
        /\ vkind = "corrupted" => vres = "False"

\* C6 witness: a two-group frame with one byte of its second group changed
\* has been verified and rejected.
C6_Witness ==
    /\ vkind = "corrupted"
    /\ vres = "False"
    /\ Len(vdata) = 6
    /\ GroupValid(vdata, 0)
    /\ ~GroupValid(vdata, 1)

\* C7: in float mode read_data never stores a value decoded from a 6-byte
\* block in which either 3-byte group fails its checksum: the channel of
\* such a block keeps the value it had.
C7_FloatBadBlockNotStored ==
    [][(/\ Called
        /\ op' = "read_data"
        /\ parser' = "fp32")
       => \A k \in 0..((Len(raw_data') \div 6) - 1) :
            (~GroupValid(raw_data', 2 * k) \/ ~GroupValid(raw_data', 2 * k + 1))
            => dict_values'[k + 1] = dict_values[k + 1]]_vars

\* C8: when the write or the read of read_data fails on the bus, the call
\* returns the empty list, makes no read after a failed write, and leaves
\* every channel of the measurement set as it was before the call.
C8_TransportFailureLeavesValues ==
    [][(/\ Called
        /\ op' = "read_data"
        /\ TransportFailed')
       => /\ ret' = RetEmptyList
          /\ WriteFailed' => reads' = <<>>
          /\ \A c \in Channels : dict_values'[c] = dict_values[c]]_vars

\* C8 witness: a read_data call whose readfrom failed returned the empty
\* list while the measurement set still holds earlier values.
C8_Witness ==
    /\ op = "read_data"
    /\ Len(writes) = 1 /\ writes[1].ok
    /\ Len(reads) = 1 /\ ~reads[1].ok
    /\ ret = RetEmptyList
    /\ dict_values[1] # NoneVal

\* C9: every transport failure reaches the caller: when a write or a read
\* of an operation failed, what the caller receives differs from what the
\* same operation hands back on success, and no bus call follows the failed
\* one.
C9_TransportFailureSurfaced ==
    TransportFailed =>
        /\ ret.kind # SuccessKind(op)
        /\ \A i \in 1..Len(writes) :
             ~writes[i].ok => (i = Len(writes) /\ reads = <<>>)

\* C10: every frame written by an operation other than start_measurement is
\* exactly the two-byte opcode of that operation in the opcode table, sent
\* to the one device address; read_data writes exactly 0x03 0x00.
C10_CommandsAreTableOpcodes ==
    (op \notin {"none", "__init__", "start_measurement"}) =>
        \A i \in 1..Len(writes) :
            /\ writes[i].addr = _SPS_ADDR
            /\ writes[i].data = OpcodeTable(op)

====
